---- MODULE Spec2Model ----
(***************************************************************************)
(* A model of cadence-app/scripts/musicxml_parser.py: the MusicXMLParser   *)
(* object (its fields and its parsed_data dictionary), parse_file with its *)
(* five extraction passes, the read-only projections of the timeline and   *)
(* main; and of cadence-app/scripts/cadence_graph.py: the CadenceDrillGraph *)
(* object and its two node functions.                                      *)
(*                                                                         *)
(* Numbers.  Every Python float is held as a fixed-point integer in        *)
(* thousandths: 1.0 is 1000.  Quarter lengths, seconds, milliseconds and   *)
(* BPM values all use this one representation, so a conversion such as     *)
(* seconds * 1000 is a real multiplication in the model.  The inputs are   *)
(* drawn from grids on which the fixed-point arithmetic is exact.          *)
(*                                                                         *)
(* Optional values.  Python's None is the empty sequence and a present     *)
(* value x is <<x>>.                                                       *)
(*                                                                         *)
(* The score.  music21 is an external collaborator.  A parsed score is     *)
(* modelled by the views the parser reads from it: the tempo markings,     *)
(* time signatures, key signatures and Key objects that score.recurse()    *)
(* yields in document order, the metadata object, and per part the         *)
(* sequence part.flatten().notesAndRests and the Measure children.         *)
(***************************************************************************)
EXTENDS Integers, Sequences, FiniteSets, TLC

VARIABLES
    self,   \* the MusicXMLParser object: score, tempo_bpm, time_signature,
            \* key_signature, parsed_data
    last,   \* the last call made: operation, arguments, outcome
    drill   \* the CadenceDrillGraph object: its state dictionary, and the
            \* numbers of evaluations and of correct ones so far (history)

vars == <<self, last, drill>>

---------------------------------------------------------------------------
(* Representation *)

None == <<>>
Some(x) == <<x>>
Get(opt) == opt[1]

\* The fixed-point scale: thousandths.
Scale == 10 * 100

Abs(x) == IF x < 0 THEN -x ELSE x

\* a * b and a / b of two fixed-point numbers.
FxMul(a, b) == (a * b) \div Scale
FxDiv(a, b) == (a * Scale) \div b

RECURSIVE SeqMax(_)
SeqMax(s) ==
    IF Len(s) = 1 THEN s[1]
    ELSE LET m == SeqMax(Tail(s)) IN IF s[1] >= m THEN s[1] ELSE m

RECURSIVE Flatten(_)
Flatten(ss) == IF ss = <<>> THEN <<>> ELSE Head(ss) \o Flatten(Tail(ss))

---------------------------------------------------------------------------
(* Program constants *)

\* self.tempo_bpm = 120
DefaultTempo == 120
\* self.time_signature = (4, 4)
DefaultTimeSignature == <<4, 4>>
\* getattr(note_obj, 'velocity', 64)
DefaultVelocity == 64
\* note_data.get('measure_number', 1)
DefaultMeasure == 1
\* note_data['start_time_seconds'] * 1000
MsPerSecond == 1000
\* note_data['duration_seconds'] > 0.5, in thousandths of a second
HoldThreshold == 500

---------------------------------------------------------------------------
(* music21 pitches: what pitch.name, pitch.octave and pitch.midi return.   *)

NoteNames == <<"C", "C#", "D", "E-", "E", "F", "F#", "G", "G#", "A", "B-", "B">>

PitchName(midi) == NoteNames[(midi % 12) + 1]
PitchOctave(midi) == (midi \div 12) - 1

---------------------------------------------------------------------------
(* __init__ *)

\* The parsed_data dictionary a new parser holds.  An empty dict or list is
\* the empty sequence.
InitialParsedData ==
    [notes |-> <<>>,
     measures |-> <<>>,
     tempo |-> DefaultTempo * Scale,
     time_signature |-> DefaultTimeSignature,
     key_signature |-> None,
     total_duration |-> 0,
     metadata |-> <<>>]

NewParser ==
    [score |-> None,
     tempo_bpm |-> DefaultTempo * Scale,
     time_signature |-> DefaultTimeSignature,
     key_signature |-> None,
     parsed_data |-> InitialParsedData]

---------------------------------------------------------------------------
(* The extraction passes of parse_file.  Each takes the parser object p    *)
(* (with p.score already set) and returns the object as the pass leaves    *)
(* it.                                                                     *)

Score(p) == Get(p.score)

\* metadata.title or "Unknown"
OrDefault(opt, d) == IF opt = None THEN d ELSE Get(opt)

_extract_metadata(p) ==
    LET md == Score(p).metadata
        metadata ==
            IF md = None THEN <<>>
            ELSE <<[title |-> OrDefault(Get(md).title, "Unknown"),
                    composer |-> OrDefault(Get(md).composer, "Unknown"),
                    copyright |-> OrDefault(Get(md).copyright, "")]>>
    IN  [p EXCEPT !.parsed_data.metadata = metadata]

_extract_tempo_and_time_signature(p) ==
    LET mm == Score(p).tempos
        ts == Score(p).timesigs
        bpm == IF mm # <<>> THEN mm[1] ELSE p.tempo_bpm
        sig == IF ts # <<>> THEN ts[1] ELSE p.time_signature
    IN  [p EXCEPT !.tempo_bpm = bpm,
                  !.time_signature = sig,
                  !.parsed_data.tempo = bpm,
                  !.parsed_data.time_signature = sig]

_extract_key_signature(p) ==
    LET key_sigs == Score(p).keysigs
        key_objects == Score(p).keys
        ks == IF key_sigs # <<>>
              THEN Some([sharps |-> key_sigs[1].sharps,
                         name |-> key_sigs[1].name,
                         mode |-> IF key_objects # <<>> THEN key_objects[1]
                                  ELSE "major"])
              ELSE p.key_signature
    IN  [p EXCEPT !.key_signature = ks, !.parsed_data.key_signature = ks]

\* (60.0 / self.tempo_bpm) * quarter_length
_quarter_length_to_seconds(p, quarter_length) ==
    FxMul(FxDiv(60 * Scale, p.tempo_bpm), quarter_length)

\* float(el.duration.quarterLength) raises for an element that carries no
\* duration.
TimingRaises(el) == el.dur = None

\* The timing dictionary of lines 113-120.
Timing(p, el) ==
    [start_time_quarters |-> el.offset,
     duration_quarters |-> Get(el.dur),
     start_time_seconds |-> _quarter_length_to_seconds(p, el.offset),
     duration_seconds |-> _quarter_length_to_seconds(p, Get(el.dur)),
     measure_number |-> el.measure]

\* The origin field of an event is history information that the Python
\* dictionaries do not hold: the part, the element of the part's flattened
\* stream and the pitch (0 for a note or a rest) the event was made from.
\* No operation reads it.
_create_note_data(note_obj, timing_data, origin) ==
    [type |-> "note",
     pitch |-> PitchName(note_obj.pitches[1]),
     octave |-> PitchOctave(note_obj.pitches[1]),
     midi_number |-> note_obj.pitches[1],
     duration_quarters |-> timing_data.duration_quarters,
     duration_seconds |-> timing_data.duration_seconds,
     start_time_quarters |-> timing_data.start_time_quarters,
     start_time_seconds |-> timing_data.start_time_seconds,
     measure_number |-> timing_data.measure_number,
     velocity |-> OrDefault(note_obj.velocity, DefaultVelocity),
     origin |-> origin]

\* Every event of a chord given the pitch of the chord's first note.
FirstPitchChordNoteData(chord_obj, pitch, timing_data, origin) ==
    [type |-> "chord_note",
     pitch |-> PitchName(chord_obj.pitches[1]),
     octave |-> PitchOctave(chord_obj.pitches[1]),
     midi_number |-> chord_obj.pitches[1],
     duration_quarters |-> timing_data.duration_quarters,
     duration_seconds |-> timing_data.duration_seconds,
     start_time_quarters |-> timing_data.start_time_quarters,
     start_time_seconds |-> timing_data.start_time_seconds,
     measure_number |-> timing_data.measure_number,
     velocity |-> OrDefault(chord_obj.velocity, DefaultVelocity),
     origin |-> origin]

_create_chord_note_data(chord_obj, pitch, timing_data, origin) ==
    [type |-> "chord_note",
     pitch |-> PitchName(pitch),
     octave |-> PitchOctave(pitch),
     midi_number |-> pitch,
     duration_quarters |-> timing_data.duration_quarters,
     duration_seconds |-> timing_data.duration_seconds,
     start_time_quarters |-> timing_data.start_time_quarters,
     start_time_seconds |-> timing_data.start_time_seconds,
     measure_number |-> timing_data.measure_number,
     velocity |-> OrDefault(chord_obj.velocity, DefaultVelocity),
     origin |-> origin]

_create_rest_data(rest_obj, timing_data, origin) ==
    [type |-> "rest",
     duration_quarters |-> timing_data.duration_quarters,
     duration_seconds |-> timing_data.duration_seconds,
     start_time_quarters |-> timing_data.start_time_quarters,
     start_time_seconds |-> timing_data.start_time_seconds,
     measure_number |-> timing_data.measure_number,
     origin |-> origin]

\* What one element appends to notes_data (lines 122-128).
ElementEvents(p, pi, ei, el) ==
    LET timing == Timing(p, el) IN
    CASE el.kind = "note" ->
            <<_create_note_data(el, timing, <<pi, ei, 0>>)>>
      [] el.kind = "chord" ->
            [k \in 1..Len(el.pitches) |->
                _create_chord_note_data(el, el.pitches[k], timing, <<pi, ei, k>>)]
      [] OTHER ->
            <<_create_rest_data(el, timing, <<pi, ei, 0>>)>>

\* notes_data before the sort: the loops of lines 106-128.
NotesData(p) ==
    LET parts == Score(p).parts IN
    Flatten([pi \in 1..Len(parts) |->
        Flatten([ei \in 1..Len(parts[pi].elems) |->
            ElementEvents(p, pi, ei, parts[pi].elems[ei])])])

\* list.sort(key=...) is stable: an event goes after every event whose key
\* is not greater than its own.
RECURSIVE InsertByStart(_, _)
InsertByStart(sorted, n) ==
    IF sorted = <<>> THEN <<n>>
    ELSE IF Head(sorted).start_time_seconds <= n.start_time_seconds
         THEN <<Head(sorted)>> \o InsertByStart(Tail(sorted), n)
         ELSE <<n>> \o sorted

\* A sort that is not stable: an event goes before the events of equal key.
RECURSIVE InsertBeforeEqual(_, _)
InsertBeforeEqual(sorted, n) ==
    IF sorted = <<>> THEN <<n>>
    ELSE IF Head(sorted).start_time_seconds < n.start_time_seconds
         THEN <<Head(sorted)>> \o InsertBeforeEqual(Tail(sorted), n)
         ELSE <<n>> \o sorted

RECURSIVE UnstableSortByStart(_)
UnstableSortByStart(notes_data) ==
    IF notes_data = <<>> THEN <<>>
    ELSE InsertBeforeEqual(
            UnstableSortByStart(SubSeq(notes_data, 1, Len(notes_data) - 1)),
            notes_data[Len(notes_data)])

RECURSIVE SortByStart(_)
SortByStart(notes_data) ==
    IF notes_data = <<>> THEN <<>>
    ELSE InsertByStart(SortByStart(SubSeq(notes_data, 1, Len(notes_data) - 1)),
                       notes_data[Len(notes_data)])

\* The end of the last event instead of the latest end.
EndOfLastEvent(notes_data) ==
    IF notes_data = <<>> THEN 0
    ELSE notes_data[Len(notes_data)].start_time_seconds
            + notes_data[Len(notes_data)].duration_seconds

\* max((n.start + n.duration for n in notes_data), default=0.0)
TotalDuration(notes_data) ==
    IF notes_data = <<>> THEN 0
    ELSE SeqMax([i \in 1..Len(notes_data) |->
                    notes_data[i].start_time_seconds + notes_data[i].duration_seconds])

\* Whether the pass raises: it builds notes_data locally, so an exception
\* from any element leaves parsed_data as it was.
NotesRaise(p) ==
    \E pi \in 1..Len(Score(p).parts) :
        \E ei \in 1..Len(Score(p).parts[pi].elems) :
            TimingRaises(Score(p).parts[pi].elems[ei])

_extract_notes_and_timing(p) ==
    LET notes_data == SortByStart(NotesData(p))
    IN  [p EXCEPT !.parsed_data.notes = notes_data,
                  !.parsed_data.total_duration = TotalDuration(notes_data)]

\* ts.barDuration.quarterLength
BarQuarterLength(ts) == (ts[1] * 4 * Scale) \div ts[2]

\* self.score.parts[0] raises IndexError for a score without parts.
MeasuresRaise(p) == Score(p).parts = <<>>

MeasureData(p, m) ==
    [number |-> m.number,
     start_time_quarters |-> m.offset,
     start_time_seconds |-> _quarter_length_to_seconds(p, m.offset),
     duration_quarters |->
        IF m.ts # None THEN Some(BarQuarterLength(Get(m.ts))) ELSE None,
     duration_seconds |->
        IF m.ts # None
        THEN Some(_quarter_length_to_seconds(p, BarQuarterLength(Get(m.ts))))
        ELSE None,
     time_signature |-> m.ts,
     key_signature |-> m.ks,
     tempo |-> m.tempo,
     notes_count |-> m.notes_count]

_extract_measures(p) ==
    LET ms == Score(p).parts[1].measures
    IN  [p EXCEPT !.parsed_data.measures =
                      [i \in 1..Len(ms) |-> MeasureData(p, ms[i])]]

---------------------------------------------------------------------------
(* parse_file.  A file is [exists, score]: a path that does not exist, a   *)
(* file converter.parse cannot read (score = None), or a parsed score.     *)
(* The result is [self, ok, err]: the object after the call, whether the   *)
(* call returned, and the exception it raised otherwise.                   *)

\* A parse_file that returns a result without measures for a score without
\* parts.
ParseFileWithoutParts(p, file) ==
    IF ~file.exists THEN [self |-> p, ok |-> FALSE, err |-> "FileNotFoundError"]
    ELSE IF file.score = None
    THEN [self |-> p, ok |-> FALSE, err |-> "converter.parse"]
    ELSE
    LET p1 == [p EXCEPT !.score = file.score]
        p2 == _extract_metadata(p1)
        p3 == _extract_tempo_and_time_signature(p2)
        p4 == _extract_key_signature(p3)
    IN  IF NotesRaise(p4)
        THEN [self |-> p4, ok |-> FALSE, err |-> "TypeError"]
        ELSE LET p5 == _extract_notes_and_timing(p4) IN
             IF MeasuresRaise(p5)
             THEN [self |-> [p5 EXCEPT !.parsed_data.measures = <<>>],
                   ok |-> TRUE, err |-> ""]
             ELSE [self |-> _extract_measures(p5), ok |-> TRUE, err |-> ""]

parse_file(p, file) ==
    IF ~file.exists THEN [self |-> p, ok |-> FALSE, err |-> "FileNotFoundError"]
    ELSE IF file.score = None
    THEN [self |-> p, ok |-> FALSE, err |-> "converter.parse"]
    ELSE
    LET p1 == [p EXCEPT !.score = file.score]
        p2 == _extract_metadata(p1)
        p3 == _extract_tempo_and_time_signature(p2)
        p4 == _extract_key_signature(p3)
    IN  IF NotesRaise(p4)
        THEN [self |-> p4, ok |-> FALSE, err |-> "TypeError"]
        ELSE LET p5 == _extract_notes_and_timing(p4) IN
             IF MeasuresRaise(p5)
             THEN [self |-> p5, ok |-> FALSE, err |-> "IndexError"]
             ELSE [self |-> _extract_measures(p5), ok |-> TRUE, err |-> ""]

---------------------------------------------------------------------------
(* The projections of the timeline *)

\* The overlap test with closed ends: an event that only touches the window
\* is kept.
RECURSIVE FilterRangeClosed(_, _, _)
FilterRangeClosed(notes, start_seconds, end_seconds) ==
    IF notes = <<>> THEN <<>>
    ELSE LET note_data == Head(notes)
             note_start == note_data.start_time_seconds
             note_end == note_start + note_data.duration_seconds
             rest == FilterRangeClosed(Tail(notes), start_seconds, end_seconds)
         IN  IF note_start <= end_seconds /\ note_end >= start_seconds
             THEN <<note_data>> \o rest
             ELSE rest

\* get_notes_for_range; end_seconds is None when the argument is omitted.
RECURSIVE FilterRange(_, _, _)
FilterRange(notes, start_seconds, end_seconds) ==
    IF notes = <<>> THEN <<>>
    ELSE LET note_data == Head(notes)
             note_start == note_data.start_time_seconds
             note_end == note_start + note_data.duration_seconds
             rest == FilterRange(Tail(notes), start_seconds, end_seconds)
         IN  IF note_start < end_seconds /\ note_end > start_seconds
             THEN <<note_data>> \o rest
             ELSE rest

get_notes_for_range(p, start_seconds, end_seconds) ==
    FilterRange(p.parsed_data.notes, start_seconds,
                IF end_seconds = None THEN p.parsed_data.total_duration
                ELSE Get(end_seconds))

\* dict.get(key, default) gives the default only when the key is absent.  Every
\* event holds the key measure_number, with the value None when the element
\* has no enclosing measure.
DictGet(d, key, default) == IF key \in DOMAIN d THEN d[key] ELSE default

\* A record whose note_type is hold from the threshold on.
GameNoteHoldAtThreshold(note_data) ==
    [midi_number |-> note_data.midi_number,
     start_time_ms |-> note_data.start_time_seconds * MsPerSecond,
     duration_ms |-> note_data.duration_seconds * MsPerSecond,
     pitch_name |-> <<note_data.pitch, note_data.octave>>,
     velocity |-> DictGet(note_data, "velocity", DefaultVelocity),
     measure |-> DictGet(note_data, "measure_number", Some(DefaultMeasure)),
     note_type |-> IF note_data.duration_seconds >= HoldThreshold
                   THEN "hold" ELSE "tap"]

\* One record of get_midi_notes_for_game.  measure is an optional value: None
\* is the JSON null.
GameNote(note_data) ==
    [midi_number |-> note_data.midi_number,
     start_time_ms |-> note_data.start_time_seconds * MsPerSecond,
     duration_ms |-> note_data.duration_seconds * MsPerSecond,
     pitch_name |-> <<note_data.pitch, note_data.octave>>,
     velocity |-> DictGet(note_data, "velocity", DefaultVelocity),
     measure |-> DictGet(note_data, "measure_number", Some(DefaultMeasure)),
     note_type |-> IF note_data.duration_seconds > HoldThreshold
                   THEN "hold" ELSE "tap"]

\* A filter that keeps the events of type note only.
RECURSIVE GameNotesOfNotesOnly(_)
GameNotesOfNotesOnly(notes) ==
    IF notes = <<>> THEN <<>>
    ELSE IF Head(notes).type \in {"note"}
         THEN <<GameNote(Head(notes))>> \o GameNotesOfNotesOnly(Tail(notes))
         ELSE GameNotesOfNotesOnly(Tail(notes))

RECURSIVE GameNotes(_)
GameNotes(notes) ==
    IF notes = <<>> THEN <<>>
    ELSE IF Head(notes).type \in {"note", "chord_note"}
         THEN <<GameNote(Head(notes))>> \o GameNotes(Tail(notes))
         ELSE GameNotes(Tail(notes))

get_midi_notes_for_game(p) == GameNotes(p.parsed_data.notes)

---------------------------------------------------------------------------
(* _duration_to_vexflow *)

\* duration_map, in the order of the dictionary: quarter lengths in
\* thousandths and VexFlow codes.
DurationMap ==
    <<<<4000, "w">>, <<3000, "h.">>, <<2000, "h">>, <<1500, "q.">>, <<1000, "q">>,
      <<750, "8.">>, <<500, "8">>, <<250, "16">>, <<125, "32">>>>

\* min(duration_map.keys(), key=...): the first key, in dictionary order, of
\* the least distance.  The keys are binary fractions and the quarter lengths
\* of the grid are whole thousandths, so the order of two distances is the
\* same in binary64 as in exact arithmetic.
RECURSIVE ClosestFrom(_, _, _)
ClosestFrom(i, best, quarter_length) ==
    IF i > Len(DurationMap) THEN best
    ELSE ClosestFrom(i + 1,
            IF Abs(DurationMap[i][1] - quarter_length)
                    < Abs(DurationMap[best][1] - quarter_length)
            THEN i ELSE best,
            quarter_length)

Closest(quarter_length) == ClosestFrom(2, 1, quarter_length)

\* abs(closest_dur - quarter_length) < 0.1, in thousandths
Tolerance == 100

\* The comparison is made in binary64.  A distance that is not 0.1 exactly is
\* at least a thousandth away from it and compares as in exact arithmetic.
\* A distance of exactly 0.1 is computed as the double nearest to
\* closest_dur - double(quarter_length), and compared with the double nearest
\* to 0.1, which is 0.1 + 5.6e-18: it is below for the quarter lengths 0.35,
\* 0.4, 0.6, 0.65, 0.85, 0.9 and 4.1, whose computed distance is
\* 0.09999999999999998 (0.09999999999999964 for 4.1), and not below for
\* 0.025, 1.1, 1.4, 1.6, 1.9, 2.1, 2.9, 3.1 and 3.9, whose computed distance
\* is 0.1 or 0.10000000000000009.
RoundsBelowTolerance == {350, 400, 600, 650, 850, 900, 4100}

DistanceBelowTolerance(closest_dur, quarter_length) ==
    LET d == Abs(closest_dur - quarter_length) IN
    d < Tolerance \/ (d = Tolerance /\ quarter_length \in RoundsBelowTolerance)

_duration_to_vexflow(quarter_length) ==
    LET closest == DurationMap[Closest(quarter_length)] IN
    IF DistanceBelowTolerance(closest[1], quarter_length) THEN closest[2]
    ELSE "q"

---------------------------------------------------------------------------
(* get_sheet_music_data and its converters.  A converter returns None when *)
(* its try block raises.  The element it is given carries its offset       *)
(* within the measure; origin <<part, element>> is a history field.        *)

\* stem_direction: 1 is up, -1 is down; middle C is MIDI 60.
StemUp == 1
StemDown == -1
MiddleC == 60

RECURSIVE SeqMin(_)
SeqMin(s) ==
    IF Len(s) = 1 THEN s[1]
    ELSE LET m == SeqMin(Tail(s)) IN IF s[1] <= m THEN s[1] ELSE m

\* note_obj.duration.quarterLength raises.
NoteToVexflowRaises(note_obj) == note_obj.dur = None

_convert_note_to_vexflow(note_obj, origin) ==
    IF NoteToVexflowRaises(note_obj) THEN None
    ELSE LET midi == note_obj.pitches[1]
             pitch_name == PitchName(midi)
             octave == PitchOctave(midi)
         IN  Some([keys |-> << <<pitch_name, octave>> >>,
                   duration |-> _duration_to_vexflow(Get(note_obj.dur)),
                   startTime |-> note_obj.offset,
                   endTime |-> note_obj.offset + Get(note_obj.dur),
                   id |-> <<"note", note_obj.offset, pitch_name, octave>>,
                   midiNumbers |-> <<midi>>,
                   stem_direction |-> IF midi >= MiddleC THEN StemUp ELSE StemDown,
                   origin |-> origin])

\* chord_obj.duration.quarterLength raises, or min() is given an empty list.
ChordToVexflowRaises(chord_obj) == chord_obj.dur = None \/ chord_obj.pitches = <<>>

\* A chord record whose stem follows the highest pitch.
ChordToVexflowByHighest(chord_obj, origin) ==
    IF ChordToVexflowRaises(chord_obj) THEN None
    ELSE LET midi_numbers == chord_obj.pitches
             vf_keys == [i \in 1..Len(midi_numbers) |->
                            <<PitchName(midi_numbers[i]), PitchOctave(midi_numbers[i])>>]
         IN  Some([keys |-> vf_keys,
                   duration |-> _duration_to_vexflow(Get(chord_obj.dur)),
                   startTime |-> chord_obj.offset,
                   endTime |-> chord_obj.offset + Get(chord_obj.dur),
                   id |-> <<"chord", chord_obj.offset, Len(vf_keys)>>,
                   midiNumbers |-> midi_numbers,
                   stem_direction |-> IF SeqMax(midi_numbers) >= MiddleC
                                      THEN StemUp ELSE StemDown,
                   origin |-> origin])

_convert_chord_to_vexflow(chord_obj, origin) ==
    IF ChordToVexflowRaises(chord_obj) THEN None
    ELSE LET midi_numbers == chord_obj.pitches
             vf_keys == [i \in 1..Len(midi_numbers) |->
                            <<PitchName(midi_numbers[i]), PitchOctave(midi_numbers[i])>>]
         IN  Some([keys |-> vf_keys,
                   duration |-> _duration_to_vexflow(Get(chord_obj.dur)),
                   startTime |-> chord_obj.offset,
                   endTime |-> chord_obj.offset + Get(chord_obj.dur),
                   id |-> <<"chord", chord_obj.offset, Len(vf_keys)>>,
                   midiNumbers |-> midi_numbers,
                   stem_direction |-> IF SeqMin(midi_numbers) >= MiddleC
                                      THEN StemUp ELSE StemDown,
                   origin |-> origin])

\* rest_obj.duration.quarterLength raises.
RestToVexflowRaises(rest_obj) == rest_obj.dur = None

_convert_rest_to_vexflow(rest_obj, origin) ==
    IF RestToVexflowRaises(rest_obj) THEN None
    ELSE Some([keys |-> << <<"B", 4>> >>,
               duration |-> _duration_to_vexflow(Get(rest_obj.dur)),
               startTime |-> rest_obj.offset,
               endTime |-> rest_obj.offset + Get(rest_obj.dur),
               id |-> <<"rest", rest_obj.offset>>,
               midiNumbers |-> <<>>,
               isRest |-> TRUE,
               origin |-> origin])

\* The isinstance chain of the loop over measure.notesAndRests.
ConvertElement(element, origin) ==
    CASE element.kind = "note" -> _convert_note_to_vexflow(element, origin)
      [] element.kind = "chord" -> _convert_chord_to_vexflow(element, origin)
      [] element.kind = "rest" -> _convert_rest_to_vexflow(element, origin)

\* The element as measure.notesAndRests yields it: its offset is the one
\* within the measure.
InMeasure(element, measure) == [element EXCEPT !.offset = element.offset - measure.offset]

\* The notes of a measure when a conversion that fails ends the loop over
\* the measure.
RECURSIVE SheetNotesFrom(_, _, _, _)
SheetNotesFrom(part, measure, part_index, ei) ==
    IF ei > Len(part.elems) THEN <<>>
    ELSE IF part.elems[ei].measure # Some(measure.number)
         THEN SheetNotesFrom(part, measure, part_index, ei + 1)
         ELSE LET vf_note == ConvertElement(InMeasure(part.elems[ei], measure),
                                            <<part_index, ei>>)
              IN  IF vf_note = None THEN <<>>
                  ELSE vf_note \o SheetNotesFrom(part, measure, part_index, ei + 1)

SheetNotesUntilFailure(part, measure, part_index) ==
    SheetNotesFrom(part, measure, part_index, 1)

\* The notes of a measure: the records of the elements whose conversion
\* returned one.
SheetNotes(part, measure, part_index) ==
    Flatten([ei \in 1..Len(part.elems) |->
        IF part.elems[ei].measure = Some(measure.number)
        THEN ConvertElement(InMeasure(part.elems[ei], measure), <<part_index, ei>>)
        ELSE <<>>])

\* measure_data; part is a history field.
SheetMeasure(part, measure, part_index) ==
    [notes |-> SheetNotes(part, measure, part_index),
     measureNumber |-> measure.number,
     clef |-> "treble",
     timeSignature |-> measure.ts,
     keySignature |->
        IF measure.ks = None THEN None
        ELSE IF Get(measure.ks).name = "no sharps or flats" THEN Some("C")
        ELSE Some(Get(measure.ks).name),
     part |-> part_index]

\* The return value: None when the parser holds no score.
get_sheet_music_data(p) ==
    IF p.score = None THEN None
    ELSE Some([measures |->
                 Flatten([pi \in 1..Len(Score(p).parts) |->
                     [mi \in 1..Len(Score(p).parts[pi].measures) |->
                         SheetMeasure(Score(p).parts[pi],
                                      Score(p).parts[pi].measures[mi], pi)]]),
               tempo |-> p.tempo_bpm,
               totalDuration |-> p.parsed_data.total_duration,
               metadata |-> p.parsed_data.metadata])

---------------------------------------------------------------------------
(* main: one run of the command line.  argv[3] stands for the file the     *)
(* path names.  The outcome is what the run printed on standard output, in *)
(* order, its exit status, and the parser it built.                        *)

\* sys.exit(1), and the status of a run that returns from main.
ExitFailure == 1
ExitSuccess == 0

\* A line of text and a JSON document on standard output.
Text(line) == [kind |-> "text", body |-> line]
Json(value) == [kind |-> "json", body |-> value]

\* str(e) of the exception parse_file raises.
ErrorMessage(err) == <<"Error parsing MusicXML file", err>>

\* The lines the converters print while get_sheet_music_data runs: one for
\* each conversion that raises.
ConvertErrorLines(p) ==
    Flatten([pi \in 1..Len(Score(p).parts) |->
        Flatten([mi \in 1..Len(Score(p).parts[pi].measures) |->
            Flatten([ei \in 1..Len(Score(p).parts[pi].elems) |->
                LET el == Score(p).parts[pi].elems[ei]
                    measure == Score(p).parts[pi].measures[mi]
                IN  IF /\ el.measure = Some(measure.number)
                       /\ ConvertElement(InMeasure(el, measure), <<pi, ei>>) = None
                    THEN <<Text(<<"Error converting to VexFlow", el.kind>>)>>
                    ELSE <<>>])])])

\* An except clause that prints the payload and lets main return.
HandleExceptionAndReturn(parser, err) ==
    [stdout |-> <<Json([error |-> ErrorMessage(err), success |-> FALSE])>>,
     exit_code |-> ExitSuccess,
     parser |-> parser]

\* The except clause of main.
HandleException(parser, err) ==
    [stdout |-> <<Json([error |-> ErrorMessage(err), success |-> FALSE])>>,
     exit_code |-> ExitFailure,
     parser |-> parser]

Commands == {"parse", "game_notes", "sheet_music"}

main(argv) ==
    IF Len(argv) < 3
    THEN [stdout |-> <<Text("Usage: python musicxml_parser.py <command> <file_path>"),
                       Text("Commands: parse, game_notes")>>,
          exit_code |-> ExitFailure,
          parser |-> NewParser]
    ELSE LET command == argv[2]
             file_path == argv[3]
             r == parse_file(NewParser, file_path)
         IN  IF command \notin Commands
             THEN [stdout |-> <<Text(<<"Unknown command", command>>)>>,
                   exit_code |-> ExitFailure,
                   parser |-> NewParser]
             ELSE IF ~r.ok THEN HandleException(r.self, r.err)
             ELSE CASE command = "parse" ->
                        [stdout |-> <<Json(r.self.parsed_data)>>,
                         exit_code |-> ExitSuccess,
                         parser |-> r.self]
                    [] command = "game_notes" ->
                        [stdout |-> <<Json([notes |-> get_midi_notes_for_game(r.self),
                                            metadata |-> r.self.parsed_data.metadata,
                                            tempo |-> r.self.parsed_data.tempo,
                                            total_duration |->
                                                r.self.parsed_data.total_duration])>>,
                         exit_code |-> ExitSuccess,
                         parser |-> r.self]
                    [] command = "sheet_music" ->
                        [stdout |-> ConvertErrorLines(r.self)
                                    \o <<Json(get_sheet_music_data(r.self))>>,
                         exit_code |-> ExitSuccess,
                         parser |-> r.self]

---------------------------------------------------------------------------
(* cadence_graph.py: the interval drill.  A node function is given a state *)
(* dictionary and returns a new one; its result here is [new_state, state]: *)
(* the dictionary returned and the dictionary passed in as the call leaves *)
(* it.  A list is a sequence; set(list) is the set of its entries.         *)

\* random.randint(60, 84), target_note > 96, score += 10, streak += 1 and
\* random.randint(1000, 9999)
MinRoot == 60
MaxRoot == 84
MaxTarget == 96
ScoreStep == 10
StreakStep == 1
MinSessionId == 1000
MaxSessionId == 9999

NOTE_NAMES == <<"C", "C#", "D", "D#", "E", "F", "F#", "G", "G#", "A", "A#", "B">>

note_number_to_name(note_number) ==
    <<NOTE_NAMES[(note_number % 12) + 1], (note_number \div 12) - 1>>

INTERVALS ==
    ("Perfect Unison" :> 0) @@ ("Minor Second" :> 1) @@ ("Major Second" :> 2)
    @@ ("Minor Third" :> 3) @@ ("Major Third" :> 4) @@ ("Perfect Fourth" :> 5)
    @@ ("Tritone" :> 6) @@ ("Perfect Fifth" :> 7) @@ ("Minor Sixth" :> 8)
    @@ ("Major Sixth" :> 9) @@ ("Minor Seventh" :> 10) @@ ("Major Seventh" :> 11)
    @@ ("Perfect Octave" :> 12)

common_intervals == <<"Perfect Fifth", "Major Third", "Perfect Fourth", "Major Second">>

ToSet(list) == {list[i] : i \in 1..Len(list)}

\* new_state of generate_prompt, for the interval and the root that random
\* chose.
Prompted(state, interval_name, root_note) ==
    LET interval_semitones == INTERVALS[interval_name]
        above == root_note + interval_semitones > MaxTarget
        root == IF above THEN MaxTarget - interval_semitones ELSE root_note
        target_note == root + interval_semitones
    IN  [state EXCEPT
            !.current_drill = "interval",
            !.prompt = <<"Play a", interval_name, "starting from",
                         note_number_to_name(root)>>,
            !.expected_notes = <<root, target_note>>,
            !.user_answer = <<>>,
            !.feedback = <<>>,
            !.is_complete = FALSE]

\* A generate_prompt that updates the dictionary it is given.
GeneratePromptInPlace(state, interval_name, root_note) ==
    [new_state |-> Prompted(state, interval_name, root_note),
     state |-> Prompted(state, interval_name, root_note)]

generate_prompt(state, interval_name, root_note) ==
    [new_state |-> Prompted(state, interval_name, root_note),
     state |-> state]

\* An evaluate_answer that resets the streak for an answer without notes.
EvaluateResettingOnNoNotes(state) ==
    LET expected == ToSet(state.expected_notes)
        user_answer == ToSet(state.user_answer)
        new_state ==
            IF user_answer = expected
            THEN [state EXCEPT
                    !.feedback = <<"Correct! You played",
                                   [i \in 1..Len(state.expected_notes) |->
                                       note_number_to_name(state.expected_notes[i])]>>,
                    !.score = @ + ScoreStep,
                    !.streak = @ + StreakStep]
            ELSE [state EXCEPT !.feedback = <<"Incorrect">>, !.streak = 0]
    IN  [new_state |-> [new_state EXCEPT !.is_complete = TRUE],
         state |-> state]

evaluate_answer(state) ==
    LET expected == ToSet(state.expected_notes)
        user_answer == ToSet(state.user_answer)
        new_state ==
            IF user_answer = expected
            THEN [state EXCEPT
                    !.feedback = <<"Correct! You played",
                                   [i \in 1..Len(state.expected_notes) |->
                                       note_number_to_name(state.expected_notes[i])]>>,
                    !.score = @ + ScoreStep,
                    !.streak = @ + StreakStep]
            ELSE IF Cardinality(user_answer) = 0
            THEN [state EXCEPT !.feedback = <<"No notes played. Try again!">>]
            ELSE IF Cardinality(user_answer) # Cardinality(expected)
            THEN [state EXCEPT
                    !.feedback = <<"Wrong number of notes", Cardinality(expected),
                                   Cardinality(user_answer)>>,
                    !.streak = 0]
            ELSE [state EXCEPT
                    !.feedback = <<"Incorrect",
                                   [i \in 1..Len(state.expected_notes) |->
                                       note_number_to_name(state.expected_notes[i])],
                                   [i \in 1..Len(state.user_answer) |->
                                       note_number_to_name(state.user_answer[i])]>>,
                    !.streak = 0]
    IN  [new_state |-> [new_state EXCEPT !.is_complete = TRUE],
         state |-> state]

\* CadenceDrillGraph.__init__, for the session number that random chose.
NewDrillState(session_number) ==
    [current_drill |-> "",
     prompt |-> <<>>,
     expected_notes |-> <<>>,
     user_answer |-> <<>>,
     score |-> 0,
     streak |-> 0,
     feedback |-> <<>>,
     is_complete |-> FALSE,
     session_id |-> <<"session", session_number>>]

\* The keys of a dictionary whose values a call changed.
Mutated(before, after) == {k \in DOMAIN before : before[k] # after[k]}

---------------------------------------------------------------------------
(* Inputs: the scores music21 hands to the parser.                         *)

\* How many parts a score has at most, and how many elements its parts hold
\* in all at most.
MaxParts == 2
MaxElements == 2

\* One 4/4 or 2/2 bar, in quarter lengths.
BarLength == 4 * Scale

\* An element starts with the first bar or with the second.
Offsets == {0, BarLength}

\* The elements a part may hold, without their position: a quarter note, a
\* half-note chord whose pitches are not in ascending order, a chord that
\* doubles a pitch, a whole rest, and a note without duration information.
QuarterNote ==
    [kind |-> "note", dur |-> Some(1 * Scale), pitches |-> <<60>>, velocity |-> None]
HalfChord ==
    [kind |-> "chord", dur |-> Some(2 * Scale), pitches |-> <<64, 60, 67>>,
     velocity |-> Some(80)]
DoubledChord ==
    [kind |-> "chord", dur |-> Some(1 * Scale), pitches |-> <<60, 60>>, velocity |-> None]
WholeRest ==
    [kind |-> "rest", dur |-> Some(4 * Scale), pitches |-> <<>>, velocity |-> None]
NoDurationNote ==
    [kind |-> "note", dur |-> None, pitches |-> <<62>>, velocity |-> None]

ElementShapes == {QuarterNote, HalfChord, DoubledChord, WholeRest, NoDurationNote}

\* An element at an offset of a part.  In a part that has measures,
\* el.getContextByClass(stream.Measure) is the bar the offset falls in; in a
\* part without measures it is None.
Element(shape, offset, measured) ==
    [kind |-> shape.kind, dur |-> shape.dur, pitches |-> shape.pitches,
     velocity |-> shape.velocity, offset |-> offset,
     measure |-> IF measured THEN Some((offset \div BarLength) + 1) ELSE None]

\* The flattened streams of n elements: part.flatten() orders the elements
\* of a part by offset.  A placed element is <<shape, offset>>.
PartStreams(n) ==
    {st \in [1..n -> ElementShapes \X Offsets] :
        \A i \in 1..n : \A j \in 1..n : i < j => st[i][2] <= st[j][2]}

\* The streams of np parts that hold at most n elements in all.
RECURSIVE PartLists(_, _)
PartLists(np, n) ==
    IF np = 0 THEN {<<>>}
    ELSE UNION {{<<st>> \o rest : st \in PartStreams(k), rest \in PartLists(np - 1, n - k)}
                : k \in 0..n}

\* The marks of the first bar: the first time signature, key signature and
\* tempo marking of the score, when the part has measures.
MeasureOf(number, elems, timesigs, keysigs, tempos) ==
    [number |-> number,
     offset |-> (number - 1) * BarLength,
     ts |-> IF number = 1 /\ timesigs # <<>> THEN Some(timesigs[1]) ELSE None,
     ks |-> IF number = 1 /\ keysigs # <<>>
            THEN Some([sharps |-> keysigs[1].sharps, name |-> keysigs[1].name])
            ELSE None,
     tempo |-> IF number = 1 /\ tempos # <<>> THEN Some(tempos[1]) ELSE None,
     notes_count |-> Cardinality({i \in 1..Len(elems) :
                        /\ elems[i].measure = Some(number)
                        /\ elems[i].kind \in {"note", "chord"}})]

PartOf(elems, measured, timesigs, keysigs, tempos) ==
    [elems |-> elems,
     measures |->
        IF ~measured THEN <<>>
        ELSE [n \in 1..Cardinality(Offsets) |->
                 MeasureOf(n, elems, timesigs, keysigs, tempos)]]

\* The score with the given marks whose parts hold the placed elements.
ScoreOf(streams, measured, tempos, timesigs, keysigs, keys, metadata) ==
    [tempos |-> tempos, timesigs |-> timesigs, keysigs |-> keysigs, keys |-> keys,
     metadata |-> metadata,
     parts |-> [pi \in 1..Len(streams) |->
        PartOf([i \in 1..Len(streams[pi]) |->
                   Element(streams[pi][i][1], streams[pi][i][2], measured)],
               measured, timesigs, keysigs, tempos)]]

SomeMetadata == Some([title |-> Some("Etude"), composer |-> None, copyright |-> None])

\* Scores that differ in their parts and elements, for a parser that parses
\* one file: with measures and a tempo marking of 100, or without measures
\* and without marks.
TimelineScores ==
    UNION {{ScoreOf(streams, mk[1], mk[2], <<>>, <<>>, <<>>, None) :
                streams \in PartLists(np, MaxElements),
                mk \in {<<TRUE, <<100 * Scale>>>>, <<FALSE, <<>>>>}}
           : np \in 0..MaxParts}

\* Scores that differ in their marks, for a parser that parses one file after
\* another: no, one or two tempo markings; no or one time signature; no key
\* signature, a bare key signature, or a Key object with its mode.  Each
\* comes without parts and with one part of a note and a rest.
NoMarks == [tempos |-> <<>>, timesigs |-> <<>>, keysigs |-> <<>>, keys |-> <<>>]
BareKeySignature == [sharps |-> 2, name |-> "2 sharps"]
MinorKey == [sharps |-> -1, name |-> "d minor"]

MarkSets ==
    {NoMarks,
     [NoMarks EXCEPT !.tempos = <<60 * Scale>>],
     [NoMarks EXCEPT !.tempos = <<100 * Scale, 60 * Scale>>],
     [NoMarks EXCEPT !.timesigs = << <<2, 2>> >>],
     [NoMarks EXCEPT !.keysigs = <<BareKeySignature>>],
     [NoMarks EXCEPT !.keysigs = <<MinorKey>>, !.keys = <<"minor">>],
     [tempos |-> <<60 * Scale>>, timesigs |-> << <<2, 2>> >>,
      keysigs |-> <<MinorKey>>, keys |-> <<"minor">>]}

MarkBodies == {<<>>, << <<<<QuarterNote, 0>>, <<WholeRest, 0>>>> >>}

MarkScores ==
    {ScoreOf(b, TRUE, m.tempos, m.timesigs, m.keysigs, m.keys, None) :
        b \in MarkBodies, m \in MarkSets}
    \cup {ScoreOf(<< <<<<QuarterNote, 0>>>> >>, FALSE, <<>>, <<>>, <<>>, <<>>, SomeMetadata)}

FileOf(score) == [exists |-> TRUE, score |-> Some(score)]
MissingFile == [exists |-> FALSE, score |-> None]
UnreadableFile == [exists |-> TRUE, score |-> None]

\* The elements of the scores given to get_sheet_music_data: besides the
\* ones above, a note below middle C, a chord whose lowest pitch is below
\* middle C and is not its first, a chord without pitches and a rest without
\* duration information.
LowNote ==
    [kind |-> "note", dur |-> Some(1 * Scale), pitches |-> <<59>>, velocity |-> None]
LowChord ==
    [kind |-> "chord", dur |-> Some(2 * Scale), pitches |-> <<64, 55>>, velocity |-> None]
EmptyChord ==
    [kind |-> "chord", dur |-> Some(1 * Scale), pitches |-> <<>>, velocity |-> None]
NoDurationRest ==
    [kind |-> "rest", dur |-> None, pitches |-> <<>>, velocity |-> None]

SheetShapes ==
    {QuarterNote, LowNote, HalfChord, LowChord, EmptyChord, WholeRest,
     NoDurationNote, NoDurationRest}

SheetStreams(n) ==
    {st \in [1..n -> SheetShapes \X Offsets] :
        \A i \in 1..n : \A j \in 1..n : i < j => st[i][2] <= st[j][2]}

\* A part of up to MaxElements elements, alone or before a part that holds
\* one quarter note; with measures and a time signature, or without
\* measures.
SheetScores ==
    UNION {{ScoreOf(<<st>> \o more, mk[1], <<>>, mk[2], <<>>, <<>>, None) :
                st \in SheetStreams(n),
                more \in {<<>>, << <<<<QuarterNote, 0>>>> >>},
                mk \in {<<TRUE, << <<2, 2>> >>>>, <<FALSE, <<>>>>}}
           : n \in 0..MaxElements}

\* The files of the specifications.
Files == {MissingFile, UnreadableFile} \cup {FileOf(sc) : sc \in MarkScores}
TimelineFiles == {FileOf(sc) : sc \in TimelineScores}
SheetFiles == {FileOf(sc) : sc \in SheetScores}

\* The argument vectors of main: too short, or a command, known or not, and
\* a file.
ArgVectors ==
    {<<"musicxml_parser.py">>, <<"musicxml_parser.py", "parse">>}
    \cup {<<"musicxml_parser.py", command, file>> :
            command \in Commands \cup {"measures"},
            file \in Files \cup SheetFiles}

\* How many answers a drill session evaluates at most.
MaxEvaluations == 2

\* A note that no prompt expects.
WrongNote == MinRoot - 1

\* The answers given to a prompt: no notes, the expected notes, in reverse,
\* twice over, the first of them only, with one wrong note in place of the
\* first, and with a wrong note added.
AnswersTo(expected_notes) ==
    {<<>>,
     expected_notes,
     [i \in 1..Len(expected_notes) |-> expected_notes[Len(expected_notes) + 1 - i]],
     expected_notes \o expected_notes,
     IF expected_notes = <<>> THEN <<>> ELSE <<Head(expected_notes)>>,
     <<WrongNote>> \o (IF expected_notes = <<>> THEN <<>> ELSE Tail(expected_notes)),
     expected_notes \o <<WrongNote>>}

\* The arguments of get_notes_for_range, in thousandths of a second.
QueryTimes == {0, 500, 2 * Scale}

---------------------------------------------------------------------------
(* The state machine *)

Init ==
    /\ self = NewParser
    /\ drill = None
    /\ last = [op |-> "__init__"]

ParseFileOf(file) ==
    LET r == parse_file(self, file) IN
    /\ self' = r.self
    /\ UNCHANGED drill
    /\ last' = [op |-> "parse_file", file |-> file, ok |-> r.ok, err |-> r.err,
                ret |-> IF r.ok THEN Some(r.self.parsed_data) ELSE None]

\* parse_file on a parser that may have parsed before.
ParseFile == \E file \in Files : ParseFileOf(file)

\* parse_file as main() calls it: once, on a new parser.
ParseFileOnce ==
    /\ last.op = "__init__"
    /\ \E file \in TimelineFiles : ParseFileOf(file)

GetNotesForRange ==
    \E start_seconds \in QueryTimes :
        \E end_seconds \in {None} \cup {Some(t) : t \in QueryTimes} :
            /\ last' = [op |-> "get_notes_for_range",
                        start_seconds |-> start_seconds,
                        end_seconds |-> end_seconds,
                        ret |-> get_notes_for_range(self, start_seconds, end_seconds)]
            /\ UNCHANGED <<self, drill>>

GetMidiNotesForGame ==
    /\ last' = [op |-> "get_midi_notes_for_game",
                ret |-> get_midi_notes_for_game(self)]
    /\ UNCHANGED <<self, drill>>

GetSheetMusicData ==
    /\ last' = [op |-> "get_sheet_music_data", ret |-> get_sheet_music_data(self)]
    /\ UNCHANGED <<self, drill>>

Next == ParseFile \/ GetNotesForRange \/ GetMidiNotesForGame \/ GetSheetMusicData

Spec == Init /\ [][Next]_vars

NextOnce == ParseFileOnce \/ GetNotesForRange \/ GetMidiNotesForGame \/ GetSheetMusicData

SpecOnce == Init /\ [][NextOnce]_vars

\* parse_file, once, of a file of the sheet-music scores.
ParseSheetFile ==
    /\ last.op = "__init__"
    /\ \E file \in SheetFiles : ParseFileOf(file)

NextSheet == ParseSheetFile \/ GetSheetMusicData

SpecSheet == Init /\ [][NextSheet]_vars

\* One run of main, in a new process.
Main ==
    /\ last.op = "__init__"
    /\ \E argv \in ArgVectors :
        LET r == main(argv) IN
        /\ self' = r.parser
        /\ UNCHANGED drill
        /\ last' = [op |-> "main", argv |-> argv, stdout |-> r.stdout,
                    exit_code |-> r.exit_code]

NextMain == Main

SpecMain == Init /\ [][NextMain]_vars

\* A new CadenceDrillGraph.
InitDrill ==
    /\ self = None
    /\ last = [op |-> "__init__"]
    /\ \E session_number \in {MinSessionId, MaxSessionId} :
        drill = [state |-> NewDrillState(session_number),
                 evaluations |-> 0,
                 correct |-> 0]

StartDrill ==
    \E interval_name \in ToSet(common_intervals) :
        \E root_note \in MinRoot..MaxRoot :
            LET r == generate_prompt(drill.state, interval_name, root_note) IN
            /\ drill' = [drill EXCEPT !.state = r.new_state]
            /\ last' = [op |-> "start_drill",
                        ret |-> [prompt |-> r.new_state.prompt,
                                 expected_notes |-> r.new_state.expected_notes,
                                 score |-> r.new_state.score,
                                 streak |-> r.new_state.streak],
                        mutated |-> Mutated(drill.state, r.state)]
            /\ UNCHANGED self

\* CadenceDrillGraph.evaluate_answer: the answer is stored in the state
\* dictionary, which is then given to evaluate_answer.
EvaluateAnswer ==
    /\ drill.evaluations < MaxEvaluations
    /\ \E user_answer \in AnswersTo(drill.state.expected_notes) :
        LET state == [drill.state EXCEPT !.user_answer = user_answer]
            r == evaluate_answer(state)
        IN  /\ drill' = [state |-> r.new_state,
                         evaluations |-> drill.evaluations + 1,
                         correct |-> drill.correct +
                            (IF ToSet(user_answer) = ToSet(drill.state.expected_notes)
                             THEN 1 ELSE 0)]
            /\ last' = [op |-> "evaluate_answer",
                        user_answer |-> user_answer,
                        ret |-> [feedback |-> r.new_state.feedback,
                                 score |-> r.new_state.score,
                                 streak |-> r.new_state.streak,
                                 is_complete |-> r.new_state.is_complete],
                        mutated |-> Mutated(state, r.state)]
            /\ UNCHANGED self

NextDrill == StartDrill \/ EvaluateAnswer

SpecDrill == InitDrill /\ [][NextDrill]_vars

\* The quarter lengths given to _duration_to_vexflow: every thousandth up to
\* MaxQuarterLength.
MaxQuarterLength == 4300

\* A call of _duration_to_vexflow that has its argument and has yet to run.
InitVexflow ==
    /\ self = NewParser
    /\ drill = None
    /\ \E quarter_length \in 0..MaxQuarterLength :
        last = [op |-> "call", quarter_length |-> quarter_length]

DurationToVexflow ==
    /\ last.op = "call"
    /\ last' = [op |-> "_duration_to_vexflow",
                quarter_length |-> last.quarter_length,
                ret |-> _duration_to_vexflow(last.quarter_length)]
    /\ UNCHANGED <<self, drill>>

NextVexflow == DurationToVexflow

SpecVexflow == InitVexflow /\ [][NextVexflow]_vars

---------------------------------------------------------------------------
(* Properties *)

Notes == self.parsed_data.notes
EndSeconds(n) == n.start_time_seconds + n.duration_seconds

\* The last call was a parse_file that returned.
ParsedOk == last.op = "parse_file" /\ last.ok
ParsedScore == Get(last.file.score)

\* Origin a comes before origin b in encounter order: parts in score order,
\* the elements of a part in the order of its flattened stream, the pitches
\* of a chord in chord order.
Before(a, b) ==
    \/ a[1] < b[1]
    \/ a[1] = b[1] /\ a[2] < b[2]
    \/ a[1] = b[1] /\ a[2] = b[2] /\ a[3] < b[3]

\* C1: the notes list is in ascending order of start_time_seconds, and two
\* events of equal start_time_seconds are in the order in which they were
\* encountered; after a parse that returned it holds one event per note,
\* rest and chord pitch of the score.
C1_TimelineOrdered ==
    /\ \A i \in 1..Len(Notes) : \A j \in 1..Len(Notes) :
        i < j =>
            /\ Notes[i].start_time_seconds <= Notes[j].start_time_seconds
            /\ Notes[i].start_time_seconds = Notes[j].start_time_seconds
                => Before(Notes[i].origin, Notes[j].origin)
    /\ ParsedOk =>
        \A pi \in 1..Len(ParsedScore.parts) :
            \A ei \in 1..Len(ParsedScore.parts[pi].elems) :
                \E i \in 1..Len(Notes) :
                    Notes[i].origin[1] = pi /\ Notes[i].origin[2] = ei

\* C1 witness: an event of the first part and the events of a chord of the
\* second part all start together, and the timeline holds them in encounter
\* order.
C1_Witness ==
    /\ ParsedOk
    /\ \E i \in 1..Len(Notes) : \E j \in 1..Len(Notes) : \E k \in 1..Len(Notes) :
        /\ i < j /\ j < k
        /\ Notes[i].origin[1] = 1
        /\ Notes[j].origin[1] = 2 /\ Notes[k].origin[1] = 2
        /\ Notes[j].type = "chord_note" /\ Notes[k].type = "chord_note"
        /\ Notes[i].start_time_seconds = Notes[j].start_time_seconds
        /\ Notes[j].start_time_seconds = Notes[k].start_time_seconds

\* C2: total_duration is 0 for an empty timeline and otherwise the greatest
\* start_time_seconds + duration_seconds of its events.
C2_TotalDuration ==
    LET total == self.parsed_data.total_duration IN
    /\ Notes = <<>> => total = 0
    /\ Notes # <<>> =>
        /\ \E i \in 1..Len(Notes) : EndSeconds(Notes[i]) = total
        /\ \A i \in 1..Len(Notes) : EndSeconds(Notes[i]) <= total

\* C2 witness: a timeline whose latest end is that of a rest and not that of
\* its last event, which is a chord note.
C2_Witness ==
    /\ ParsedOk
    /\ Len(Notes) > 1
    /\ Notes[Len(Notes)].type = "chord_note"
    /\ EndSeconds(Notes[Len(Notes)]) < self.parsed_data.total_duration
    /\ \E i \in 1..Len(Notes) :
        /\ Notes[i].type = "rest"
        /\ EndSeconds(Notes[i]) = self.parsed_data.total_duration

\* The events of the timeline made from element ei of part pi, in timeline
\* order.
EventsOf(pi, ei) ==
    SelectSeq(Notes, LAMBDA n : n.origin[1] = pi /\ n.origin[2] = ei)

\* The events made from a chord are as many chord_note events as it has
\* pitches, with the chord's timing, measure and velocity, and the i-th of
\* them has the pitch fields of the chord's i-th pitch.
ChordEventsOf(p, el, evs) ==
    /\ Len(evs) = Len(el.pitches)
    /\ \A i \in 1..Len(evs) :
        /\ evs[i].type = "chord_note"
        /\ evs[i].start_time_quarters = el.offset
        /\ evs[i].duration_quarters = Get(el.dur)
        /\ evs[i].start_time_seconds = (60 * Scale * el.offset) \div p.tempo_bpm
        /\ evs[i].duration_seconds = (60 * Scale * Get(el.dur)) \div p.tempo_bpm
        /\ evs[i].measure_number = el.measure
        /\ evs[i].velocity = (IF el.velocity = None THEN 64 ELSE Get(el.velocity))
        /\ evs[i].midi_number = el.pitches[i]
        /\ evs[i].pitch = PitchName(el.pitches[i])
        /\ evs[i].octave = PitchOctave(el.pitches[i])

DistinctPitchFields(evs) ==
    \A i \in 1..Len(evs) : \A j \in 1..Len(evs) :
        i # j => <<evs[i].pitch, evs[i].octave, evs[i].midi_number>>
                    # <<evs[j].pitch, evs[j].octave, evs[j].midi_number>>

DistinctPitches(el) ==
    \A i \in 1..Len(el.pitches) : \A j \in 1..Len(el.pitches) :
        i # j => el.pitches[i] # el.pitches[j]

\* A note yields one note event and a rest one rest event.
SingleEventOf(el, evs) ==
    /\ Len(evs) = 1
    /\ evs[1].type = el.kind
    /\ evs[1].start_time_quarters = el.offset
    /\ evs[1].duration_quarters = Get(el.dur)

\* C3 as stated: after a parse that returned, every chord of N pitches has
\* N chord_note events in the timeline, with the chord's start, duration,
\* measure and velocity, in the chord's pitch order and with pairwise
\* distinct pitch fields; a note has one note event and a rest one rest event.
C3_ChordEventsDistinct ==
    ParsedOk =>
        \A pi \in 1..Len(ParsedScore.parts) :
            \A ei \in 1..Len(ParsedScore.parts[pi].elems) :
                LET el == ParsedScore.parts[pi].elems[ei]
                    evs == EventsOf(pi, ei)
                IN  IF el.kind = "chord"
                    THEN ChordEventsOf(self, el, evs) /\ DistinctPitchFields(evs)
                    ELSE SingleEventOf(el, evs)

\* C3 amended: the same, with the pitch fields of the N events being those of
\* the chord's N pitches in order, pairwise distinct when the chord's pitches
\* are pairwise distinct.
C3_ChordEvents ==
    ParsedOk =>
        \A pi \in 1..Len(ParsedScore.parts) :
            \A ei \in 1..Len(ParsedScore.parts[pi].elems) :
                LET el == ParsedScore.parts[pi].elems[ei]
                    evs == EventsOf(pi, ei)
                IN  IF el.kind = "chord"
                    THEN /\ ChordEventsOf(self, el, evs)
                         /\ DistinctPitches(el) => DistinctPitchFields(evs)
                    ELSE SingleEventOf(el, evs)

\* C3 witness: the timeline of a measured score, at 100 BPM, that holds the
\* three events of the half-note chord after a note of another part that
\* starts with it.
C3_Witness ==
    /\ ParsedOk
    /\ self.tempo_bpm = 100 * Scale
    /\ Len(Notes) = 4
    /\ Notes[1].type = "note"
    /\ \A i \in 2..4 :
        /\ Notes[i].type = "chord_note"
        /\ Notes[i].start_time_seconds = Notes[1].start_time_seconds
        /\ Notes[i].measure_number = Some(2)
        /\ Notes[i].velocity = 80
    /\ <<Notes[2].midi_number, Notes[3].midi_number, Notes[4].midi_number>>
        = <<64, 60, 67>>

\* The events of the timeline that overlap the open window (start, end).
Overlapping(notes, start_seconds, end_seconds) ==
    SelectSeq(notes, LAMBDA n :
        /\ n.start_time_seconds < end_seconds
        /\ n.start_time_seconds + n.duration_seconds > start_seconds)

\* C4: a get_notes_for_range step returns exactly the events that start
\* before end and end after start, in timeline order, with end standing for
\* total_duration when it is omitted, and leaves the parser as it was.
C4_RangeQuery ==
    [][last'.op = "get_notes_for_range" =>
        /\ self' = self
        /\ last'.ret =
            Overlapping(self.parsed_data.notes, last'.start_seconds,
                        IF last'.end_seconds = None
                        THEN self.parsed_data.total_duration
                        ELSE Get(last'.end_seconds))]_vars

\* C4 witness: a query with end omitted that drops an event ending exactly
\* at start and keeps a later event.
C4_Witness ==
    /\ last.op = "get_notes_for_range"
    /\ last.end_seconds = None
    /\ last.ret # <<>>
    /\ \E i \in 1..Len(Notes) :
        /\ EndSeconds(Notes[i]) = last.start_seconds
        /\ \A k \in 1..Len(last.ret) : last.ret[k] # Notes[i]

\* C5: every game note has measure 1 when its event's measure number is
\* null and the event's measure number otherwise; none has a null measure.
C5_GameMeasure ==
    last.op = "get_midi_notes_for_game" =>
        LET src == SelectSeq(Notes, LAMBDA n : n.type # "rest") IN
        /\ Len(last.ret) = Len(src)
        /\ \A i \in 1..Len(last.ret) :
            /\ last.ret[i].measure # None
            /\ last.ret[i].measure =
                (IF src[i].measure_number = None THEN Some(1)
                 ELSE src[i].measure_number)

\* C6: a parse of a score that has parts returns, and the timeline holds the
\* events of exactly the elements that carry a duration.
C6_ElementSkipped ==
    (last.op = "parse_file" /\ last.file.score # None /\ ParsedScore.parts # <<>>) =>
        /\ last.ok
        /\ \A pi \in 1..Len(ParsedScore.parts) :
            \A ei \in 1..Len(ParsedScore.parts[pi].elems) :
                (EventsOf(pi, ei) # <<>>) <=> (ParsedScore.parts[pi].elems[ei].dur # None)

\* C10: get_midi_notes_for_game returns one game note for each note and
\* chord_note event, in timeline order, and none for a rest; start_time_ms
\* and duration_ms are the event's seconds times 1000 and midi_number is the
\* event's.
C10_GameNotes ==
    last.op = "get_midi_notes_for_game" =>
        LET src == SelectSeq(Notes, LAMBDA n : n.type \in {"note", "chord_note"}) IN
        /\ Len(last.ret) = Len(src)
        /\ \A i \in 1..Len(src) :
            /\ last.ret[i].start_time_ms = src[i].start_time_seconds * 1000
            /\ last.ret[i].duration_ms = src[i].duration_seconds * 1000
            /\ last.ret[i].midi_number = src[i].midi_number

\* C10 witness: the game notes of a timeline that holds a rest before the
\* three events of a chord of a later bar.
C10_Witness ==
    /\ last.op = "get_midi_notes_for_game"
    /\ Len(Notes) = 4
    /\ Notes[1].type = "rest"
    /\ Len(last.ret) = 3
    /\ last.ret[1].start_time_ms > 0
    /\ last.ret[1].duration_ms = 1000 * 1000
    /\ last.ret[1].midi_number = 64

\* C7: after a parse_file that returned, the tempo is 120 when the score has
\* no tempo marking and the BPM of its first marking otherwise, and the time
\* signature is 4/4 when the score has none and its first one otherwise.
C7_ResolvedTempo ==
    ParsedOk =>
        /\ self.parsed_data.tempo =
            (IF ParsedScore.tempos = <<>> THEN 120 * Scale ELSE ParsedScore.tempos[1])
        /\ self.parsed_data.time_signature =
            (IF ParsedScore.timesigs = <<>> THEN <<4, 4>> ELSE ParsedScore.timesigs[1])

\* The fields of parsed_data that C8 names.
Outputs(p) ==
    [tempo |-> p.parsed_data.tempo,
     time_signature |-> p.parsed_data.time_signature,
     key_signature |-> p.parsed_data.key_signature,
     notes |-> p.parsed_data.notes,
     measures |-> p.parsed_data.measures,
     total_duration |-> p.parsed_data.total_duration]

\* C8: after a parse_file that returned, whatever calls came before it, the
\* tempo, time signature, key signature, notes, measures and total duration
\* are those a new parser produces for the same file.
C8_NoStateAcrossParses ==
    ParsedOk => Outputs(self) = Outputs(parse_file(NewParser, last.file).self)

\* The least distance of a quarter length from the keys of the table.
LeastDistance(quarter_length) ==
    CHOOSE d \in {Abs(DurationMap[i][1] - quarter_length) : i \in 1..Len(DurationMap)} :
        \A i \in 1..Len(DurationMap) : d <= Abs(DurationMap[i][1] - quarter_length)

\* C9: _duration_to_vexflow returns the code of a table entry at the least
\* distance from the quarter length when that distance is below 0.1, and the
\* quarter-note code otherwise; 0.5 and 0.52 give the eighth, 0.3 the
\* sixteenth and 0.9 the quarter.
C9_Quantization ==
    last.op = "_duration_to_vexflow" =>
        LET q == last.quarter_length
            d == LeastDistance(q)
        IN  /\ \E i \in 1..Len(DurationMap) : last.ret = DurationMap[i][2]
            /\ d < 100 =>
                \E i \in 1..Len(DurationMap) :
                    /\ Abs(DurationMap[i][1] - q) = d
                    /\ last.ret = DurationMap[i][2]
            /\ d >= 100 => last.ret = "q"
            /\ q \in {500, 520} => last.ret = "8"
            /\ q = 300 => last.ret = "16"
            /\ q = 900 => last.ret = "q"

\* The events that get_midi_notes_for_game turns into game notes.
Playable == SelectSeq(Notes, LAMBDA n : n.type \in {"note", "chord_note"})

\* C11: the note_type of every game note is "hold" when the duration_seconds
\* of its event is greater than 0.5 and "tap" otherwise, whatever the tempo
\* of the score: an event of 0.5 seconds is a tap.
C11_NoteType ==
    last.op = "get_midi_notes_for_game" =>
        /\ Len(last.ret) = Len(Playable)
        /\ \A i \in 1..Len(Playable) :
            /\ last.ret[i].note_type \in {"hold", "tap"}
            /\ last.ret[i].note_type = "hold" <=> Playable[i].duration_seconds > 500
            /\ Playable[i].duration_seconds = 500 => last.ret[i].note_type = "tap"

\* C11 witness: the game notes of a score at 120 BPM that holds a quarter
\* note, an event of exactly 0.5 seconds, and a half-note chord, events of
\* one second.
C11_Witness ==
    /\ last.op = "get_midi_notes_for_game"
    /\ self.parsed_data.tempo = 120 * Scale
    /\ \E i \in 1..Len(Playable) :
        Playable[i].duration_seconds = 500 /\ last.ret[i].note_type = "tap"
    /\ \E i \in 1..Len(Playable) :
        Playable[i].duration_seconds = 1000 /\ last.ret[i].note_type = "hold"

\* C11 at another tempo: the same quarter note lasts 0.6 seconds at 100 BPM
\* and is a hold.
C11_WitnessOtherTempo ==
    /\ last.op = "get_midi_notes_for_game"
    /\ self.parsed_data.tempo = 100 * Scale
    /\ \E i \in 1..Len(Playable) :
        Playable[i].duration_seconds = 600 /\ last.ret[i].note_type = "hold"

\* The records of the notation view that the last call returned, over all
\* measures, and the element of the score a record was made from.
SheetRecords == Flatten([mi \in 1..Len(Get(last.ret).measures) |->
                            Get(last.ret).measures[mi].notes])
SourceOf(vf_note) == Score(self).parts[vf_note.origin[1]].elems[vf_note.origin[2]]

\* C12: in the notation view the stem of a note is up (1) when its MIDI
\* number is at least 60 and down (-1) otherwise, and the stem of a chord is
\* up when its lowest MIDI number is at least 60, that is when all its
\* pitches are, and down otherwise.
C12_StemDirection ==
    (last.op = "get_sheet_music_data" /\ last.ret # None) =>
        \A i \in 1..Len(SheetRecords) :
            LET vf_note == SheetRecords[i]
                el == SourceOf(vf_note)
            IN  /\ el.kind = "note" =>
                    vf_note.stem_direction = (IF el.pitches[1] >= 60 THEN 1 ELSE -1)
                /\ el.kind = "chord" =>
                    /\ vf_note.stem_direction \in {1, -1}
                    /\ vf_note.stem_direction = 1 <=>
                        \A k \in 1..Len(el.pitches) : el.pitches[k] >= 60

\* C12 witness: the notation view holds the note 60 with its stem up and the
\* chord of 64 and 55 with its stem down.
C12_Witness ==
    /\ last.op = "get_sheet_music_data"
    /\ last.ret # None
    /\ \E i \in 1..Len(SheetRecords) :
        /\ SheetRecords[i].midiNumbers = <<60>>
        /\ SheetRecords[i].stem_direction = 1
    /\ \E i \in 1..Len(SheetRecords) :
        /\ SheetRecords[i].midiNumbers = <<64, 55>>
        /\ SheetRecords[i].stem_direction = -1

\* C12, the other two cases: the note 59 has its stem down and the chord of
\* 64, 60 and 67 has its stem up.
C12_WitnessLowNote ==
    /\ last.op = "get_sheet_music_data"
    /\ last.ret # None
    /\ \E i \in 1..Len(SheetRecords) :
        /\ SheetRecords[i].midiNumbers = <<59>>
        /\ SheetRecords[i].stem_direction = -1
    /\ \E i \in 1..Len(SheetRecords) :
        /\ SheetRecords[i].midiNumbers = <<64, 60, 67>>
        /\ SheetRecords[i].stem_direction = 1

\* The conversion of an element returns a record: its duration can be read
\* and, for a chord, it has a pitch.
Convertible(el) == el.dur # None /\ (el.kind = "chord" => el.pitches # <<>>)

\* The fields of a record of the notation view, origin aside.
RecordFields(el) ==
    IF el.kind = "rest"
    THEN {"keys", "duration", "startTime", "endTime", "id", "midiNumbers", "isRest"}
    ELSE {"keys", "duration", "startTime", "endTime", "id", "midiNumbers",
          "stem_direction"}

\* The measures of the score in the order of the output: part by part.
ScoreMeasures ==
    Flatten([pi \in 1..Len(Score(self).parts) |->
        [mi \in 1..Len(Score(self).parts[pi].measures) |->
            <<pi, Score(self).parts[pi].measures[mi].number>>]])

\* The elements of part pi that lie in measure number and are convertible,
\* in the order of the part.
ConvertibleIn(pi, number) ==
    LET elems == Score(self).parts[pi].elems IN
    SelectSeq([ei \in 1..Len(elems) |-> <<pi, ei>>],
              LAMBDA o : /\ elems[o[2]].measure = Some(number)
                         /\ Convertible(elems[o[2]]))

\* C13: get_sheet_music_data emits every measure of every part, and the
\* notes of a measure are the records of exactly those of its elements whose
\* conversion does not fail, in order; every record is complete.
C13_FailedElementOmitted ==
    (last.op = "get_sheet_music_data" /\ last.ret # None) =>
        LET measures == Get(last.ret).measures IN
        /\ Len(measures) = Len(ScoreMeasures)
        /\ \A mi \in 1..Len(measures) :
            LET m == measures[mi]
                kept == ConvertibleIn(ScoreMeasures[mi][1], ScoreMeasures[mi][2])
            IN  /\ <<m.part, m.measureNumber>> = ScoreMeasures[mi]
                /\ Len(m.notes) = Len(kept)
                /\ \A i \in 1..Len(kept) :
                    LET vf_note == m.notes[i]
                        el == SourceOf(vf_note)
                    IN  /\ vf_note.origin = kept[i]
                        /\ DOMAIN vf_note = RecordFields(el) \cup {"origin"}
                        /\ \E k \in 1..Len(DurationMap) :
                            vf_note.duration = DurationMap[k][2]
                        /\ vf_note.endTime = vf_note.startTime + Get(el.dur)
                        /\ vf_note.midiNumbers = el.pitches
                        /\ el.kind # "rest" => Len(vf_note.keys) = Len(el.pitches)

\* C13 witness: after a parse that returned, a measure whose first element
\* fails to convert and whose second element is in the output, in a score of
\* two parts.
C13_Witness ==
    /\ last.op = "get_sheet_music_data"
    /\ last.ret # None
    /\ self.parsed_data.measures # <<>>
    /\ Len(Score(self).parts) = 2
    /\ Len(Get(last.ret).measures) = 4
    /\ \E mi \in 1..Len(Get(last.ret).measures) :
        LET m == Get(last.ret).measures[mi]
            elems == Score(self).parts[m.part].elems
        IN  /\ Len(elems) = 2
            /\ elems[1].measure = Some(m.measureNumber)
            /\ elems[2].measure = Some(m.measureNumber)
            /\ ~Convertible(elems[1])
            /\ Len(m.notes) = 1
            /\ m.notes[1].origin = <<m.part, 2>>

\* The file makes parse_file raise: it is missing, music21 cannot read it,
\* its score has no parts, or the duration of an element cannot be read.
FatalFile(file) ==
    \/ ~file.exists
    \/ file.score = None
    \/ Get(file.score).parts = <<>>
    \/ \E pi \in 1..Len(Get(file.score).parts) :
        \E ei \in 1..Len(Get(file.score).parts[pi].elems) :
            Get(file.score).parts[pi].elems[ei].dur = None

\* C14: a run of parse, game_notes or sheet_music that fails prints one JSON
\* document and nothing else, the payload with the fields error and success
\* and success false, and exits with a non-zero status, whatever the cause.
C14_UniformFailure ==
    (last.op = "main" /\ Len(last.argv) = 3) =>
        ((last.argv[2] \in {"parse", "game_notes", "sheet_music"}
          /\ FatalFile(last.argv[3])) =>
            /\ last.exit_code # 0
            /\ Len(last.stdout) = 1
            /\ last.stdout[1].kind = "json"
            /\ DOMAIN last.stdout[1].body = {"error", "success"}
            /\ last.stdout[1].body.success = FALSE)

\* C14 witness: sheet_music of a score whose second element has a duration
\* that cannot be read printed the payload and exited with status 1.
C14_Witness ==
    /\ last.op = "main"
    /\ Len(last.argv) = 3
    /\ last.argv[2] = "sheet_music"
    /\ last.argv[3].score # None
    /\ Len(Get(last.argv[3].score).parts) = 1
    /\ Len(Get(last.argv[3].score).parts[1].elems) = 2
    /\ Get(last.argv[3].score).parts[1].elems[1].dur # None
    /\ Get(last.argv[3].score).parts[1].elems[2].dur = None
    /\ last.exit_code = 1
    /\ last.stdout = <<[kind |-> "json",
                        body |-> [error |-> <<"Error parsing MusicXML file", "TypeError">>,
                                  success |-> FALSE]]>>

\* C14, the other causes: a missing file under parse and a score without
\* parts under game_notes.
C14_WitnessMissingFile ==
    /\ last.op = "main"
    /\ Len(last.argv) = 3
    /\ last.argv[2] = "parse"
    /\ ~last.argv[3].exists
    /\ last.exit_code = 1
    /\ last.stdout[1].body.success = FALSE

C14_WitnessNoParts ==
    /\ last.op = "main"
    /\ Len(last.argv) = 3
    /\ last.argv[2] = "game_notes"
    /\ last.argv[3].score # None
    /\ Get(last.argv[3].score).parts = <<>>
    /\ last.exit_code = 1
    /\ last.stdout[1].body.success = FALSE

\* A run that does not fail exits with status 0 and prints its result
\* document last.
MainSucceeds ==
    (last.op = "main" /\ Len(last.argv) = 3 /\ last.argv[2] \in Commands
     /\ ~FatalFile(last.argv[3])) =>
        /\ last.exit_code = 0
        /\ last.stdout[Len(last.stdout)].kind = "json"
        /\ \A i \in 1..(Len(last.stdout) - 1) : last.stdout[i].kind = "text"

\* C15: parse_file of a score without parts raises, and returns no data.
C15_NoPartsFails ==
    (last.op = "parse_file" /\ last.file.score # None /\ ParsedScore.parts = <<>>) =>
        /\ ~last.ok
        /\ last.err # ""
        /\ last.ret = None

\* C15 witness: parse_file of a score without parts, on a parser whose last
\* parse returned measures, raised IndexError.
C15_Witness ==
    /\ last.op = "parse_file"
    /\ last.file.score # None
    /\ ParsedScore.parts = <<>>
    /\ ~last.ok
    /\ last.err = "IndexError"
    /\ last.ret = None
    /\ self.parsed_data.notes = <<>>
    /\ self.parsed_data.measures # <<>>

\* The played notes are the expected notes, order and duplicates aside.
SameNotes(user_answer, expected_notes) ==
    /\ \A i \in 1..Len(user_answer) :
        \E j \in 1..Len(expected_notes) : user_answer[i] = expected_notes[j]
    /\ \A j \in 1..Len(expected_notes) :
        \E i \in 1..Len(user_answer) : user_answer[i] = expected_notes[j]

\* One evaluate_answer step: is_complete becomes true; a correct answer
\* adds 10 to the score and 1 to the streak; any other answer leaves the
\* score, and resets the streak to 0 unless it holds no notes.
EvaluateStep ==
    last'.op = "evaluate_answer" =>
        /\ drill'.state.is_complete
        /\ last'.ret.is_complete
        /\ IF SameNotes(last'.user_answer, drill.state.expected_notes)
           THEN /\ drill'.state.score = drill.state.score + 10
                /\ drill'.state.streak = drill.state.streak + 1
           ELSE /\ drill'.state.score = drill.state.score
                /\ drill'.state.streak =
                    (IF last'.user_answer = <<>> THEN drill.state.streak ELSE 0)

\* C16: every evaluate_answer step is an EvaluateStep; no step of the drill
\* lowers the score; and the score is always the initial score, 0, plus 10
\* times the number of correct evaluations.
C16_ScoreAndStreak ==
    /\ [][EvaluateStep /\ drill'.state.score >= drill.state.score]_vars
    /\ [](drill.state.score = 0 + 10 * drill.correct)

\* C16 witness: after a prompt, an answer with the expected notes in
\* reverse and then an answer without notes: the score is 10 and the streak
\* is still 1.
C16_Witness ==
    /\ last.op = "evaluate_answer"
    /\ last.user_answer = <<>>
    /\ Len(drill.state.expected_notes) = 2
    /\ drill.evaluations = 2
    /\ drill.correct = 1
    /\ drill.state.score = 10
    /\ drill.state.streak = 1
    /\ drill.state.is_complete

\* C16, the other cases: a correct answer that doubles the notes after a
\* wrong one, and a wrong answer after a correct one.
C16_WitnessDoubled ==
    /\ last.op = "evaluate_answer"
    /\ Len(last.user_answer) = 4
    /\ drill.evaluations = 2
    /\ drill.state.score = 10
    /\ drill.state.streak = 1

C16_WitnessReset ==
    /\ last.op = "evaluate_answer"
    /\ last.user_answer # <<>>
    /\ drill.evaluations = 2
    /\ drill.state.score = 10
    /\ drill.state.streak = 0

\* C17: a start_drill step leaves score, streak and session_id, empties
\* user_answer and feedback, sets is_complete to false and expected_notes to
\* a root in 60..84 and the note 2, 4, 5 or 7 semitones above it, at most
\* 96; the dictionary given to generate_prompt is unchanged.
C17_GeneratePrompt ==
    [][last'.op = "start_drill" =>
        /\ drill'.state.score = drill.state.score
        /\ drill'.state.streak = drill.state.streak
        /\ drill'.state.session_id = drill.state.session_id
        /\ drill'.state.user_answer = <<>>
        /\ drill'.state.feedback = <<>>
        /\ drill'.state.is_complete = FALSE
        /\ Len(drill'.state.expected_notes) = 2
        /\ drill'.state.expected_notes[1] \in 60..84
        /\ drill'.state.expected_notes[2] - drill'.state.expected_notes[1] \in {2, 4, 5, 7}
        /\ drill'.state.expected_notes[2] <= 96
        /\ last'.ret.expected_notes = drill'.state.expected_notes
        /\ last'.mutated = {}]_vars

\* C17 witness: a prompt for the fifth above 84, given after a correct
\* answer to an earlier prompt.
C17_Witness ==
    /\ last.op = "start_drill"
    /\ drill.state.expected_notes = <<84, 91>>
    /\ drill.state.score = 10
    /\ drill.state.streak = 1
    /\ drill.evaluations = 1
    /\ drill.state.user_answer = <<>>
    /\ drill.state.feedback = <<>>
    /\ ~drill.state.is_complete

====
